---- MODULE Spec2Model ----
(***************************************************************************)
(* The k-armed bandit test bed: BanditEnvironment, the bandit policies,    *)
(* the bandit agents and BanditTestRunner.perform_runs.                    *)
(*                                                                         *)
(* Reals are numpy float64 in the program.  Here a real is an integer      *)
(* count of units of 2^-FracBits, and every arithmetic result is rounded   *)
(* to MantBits significant bits, nearest, ties to even: binary floating    *)
(* point at a reduced width.  Arrays are functions over 0..k-1, as the     *)
(* program indexes them.                                                   *)
(***************************************************************************)
EXTENDS Integers, Sequences, FiniteSets

VARIABLES bandit_env, agents, pc, timesteps, runs, run, timestep, agent_id,
          rewards_history, optimal_action_history, returned,
          trace, resets, lastCall, sinceReset, constructed

vars == <<bandit_env, agents, pc, timesteps, runs, run, timestep, agent_id,
          rewards_history, optimal_action_history, returned,
          trace, resets, lastCall, sinceReset, constructed>>

runnerVars == <<pc, timesteps, runs, run, timestep, agent_id,
                rewards_history, optimal_action_history, returned,
                trace, resets>>

(* ------------------------------ bounds --------------------------------- *)

MantBits == 3
FracBits == 4
MaxK == 2
MaxTimesteps == 2
MaxRuns == 2
MaxWork == 4
MaxUpdates == 2

(* --------------------------- float arithmetic --------------------------- *)

Pow2(n) == 2 ^ n

One == Pow2(FracBits)

Half == One \div 2

RoundHalfEven(n, d) ==
    LET f == n \div d
        r == n % d
    IN  IF 2 * r < d THEN f
        ELSE IF 2 * r > d THEN f + 1
        ELSE IF f % 2 = 0 THEN f ELSE f + 1

RECURSIVE Exponent(_)
Exponent(m) == IF m < Pow2(MantBits) THEN 0 ELSE 1 + Exponent(m \div 2)

RoundMag(n, d) ==
    LET e == Exponent(n \div d)
    IN  RoundHalfEven(n, d * Pow2(e)) * Pow2(e)

Round(n, d) == IF n < 0 THEN -RoundMag(-n, d) ELSE RoundMag(n, d)

fadd(a, b) == Round(a + b, 1)

fsub(a, b) == Round(a - b, 1)

fmul(a, b) == Round(a * b, One)

fdiv(a, b) == IF b < 0 THEN Round(-(a * One), -b) ELSE Round(a * One, b)

ToFloat(n) == Round(n * One, 1)

(* ------------------------------ numpy bits ------------------------------ *)

Range(f) == {f[i] : i \in DOMAIN f}

ArrayMax(x) == CHOOSE m \in Range(x) : \A v \in Range(x) : m >= v

Maximizers(x) == {i \in DOMAIN x : x[i] = ArrayMax(x)}

Filled(k, v) == [i \in 0 .. k - 1 |-> v]

NormalDraws(loc, scale) == {fsub(loc, scale), fadd(loc, scale)}

(* ------------------------- BanditEnvironment ---------------------------- *)

EnvMu == 0

EnvSigma == One

DrawnEnvs(k, mu, sigma) ==
    {[k |-> k, mu |-> mu, sigma |-> sigma,
      true_action_values |-> q, optimal_action |-> o] :
        <<q, o>> \in {qo \in [0 .. k - 1 -> NormalDraws(mu, sigma)] \X (0 .. k - 1) :
                        qo[2] \in Maximizers(qo[1])}}

BanditEnvironment(k, mu, sigma) == DrawnEnvs(k, mu, sigma)

(* A reset that redraws the values and keeps the old optimal_action.       *)
reset_keeping_optimal_action(env) ==
    {[env EXCEPT !.true_action_values = q] :
        q \in [0 .. env.k - 1 -> NormalDraws(env.mu, env.sigma)]}

reset_true_action_values(env) == DrawnEnvs(env.k, env.mu, env.sigma)

random_walk_action_values(env, mu, sigma) == env

IndexInBounds(k, index) == -k <= index /\ index < k

ArrayIndex(k, index) == IF index < 0 THEN index + k ELSE index

take_action_emit_reward(env, action) ==
    IF ~IndexInBounds(env.k, action)
    THEN {[raised |-> "IndexError", reward |-> 0, optimal |-> FALSE]}
    ELSE {[raised |-> "none", reward |-> r, optimal |-> (action = env.optimal_action)] :
            r \in NormalDraws(env.true_action_values[ArrayIndex(env.k, action)], One)}

(* ------------------------------ np.exp ---------------------------------- *)
(* exp in fixed point with 10 fractional bits: e^x = e^i * e^f for x = i + f, *)
(* i an integer and 0 <= f < 1; e^f by its Taylor series.  The result is    *)
(* then rounded like every other float.                                     *)

ExpScale == 2 ^ 10

EulerFix == 2783

TaylorTerms == 8

RECURSIVE ExpInt(_)
ExpInt(i) ==
    IF i = 0 THEN ExpScale
    ELSE IF i > 0 THEN RoundHalfEven(ExpInt(i - 1) * EulerFix, ExpScale)
    ELSE RoundHalfEven(ExpInt(i + 1) * ExpScale, EulerFix)

RECURSIVE ExpFracFrom(_, _, _)
ExpFracFrom(m, n, term) ==
    IF n > TaylorTerms \/ term = 0 THEN 0
    ELSE term + ExpFracFrom(m, n + 1, RoundHalfEven(term * m, One * (n + 1)))

ExpFrac(m) == ExpFracFrom(m, 0, ExpScale)

FloorDiv(a, b) == IF a >= 0 THEN a \div b ELSE -((-a + b - 1) \div b)

np_exp(x) ==
    LET i == FloorDiv(x, One)
        m == x - i * One
    IN  Round(RoundHalfEven(ExpInt(i) * ExpFrac(m), ExpScale) * One, ExpScale)

RECURSIVE SumUpTo(_, _)
SumUpTo(x, n) == IF n < 0 THEN 0 ELSE fadd(SumUpTo(x, n - 1), x[n])

np_sum(x) == SumUpTo(x, Cardinality(DOMAIN x) - 1)

(* ------------------------------ policies -------------------------------- *)

BanditEpsilonGreedyPolicy(epsilon) == [kind |-> "epsilon_greedy", epsilon |-> epsilon]

BanditSoftmaxPolicy == [kind |-> "softmax"]

argmax_with_random_tiebreaker(action_value_estimates) ==
    Maximizers(action_value_estimates)

UniformRolls == {0, 1, fdiv(One, ToFloat(10)), Half}

ExploreTest(roll, epsilon) == roll <= epsilon

EpsilonGreedy_choose_action(policy, action_value_estimates) ==
    UNION {IF ExploreTest(roll, policy.epsilon)
           THEN {[roll |-> roll, branch |-> "explore", action |-> a] :
                    a \in DOMAIN action_value_estimates}
           ELSE {[roll |-> roll, branch |-> "greedy", action |-> a] :
                    a \in argmax_with_random_tiebreaker(action_value_estimates)} :
           roll \in UniformRolls}

softmax(x) ==
    LET e == [i \in DOMAIN x |-> np_exp(x[i])]
        total == np_sum(e)
    IN  [i \in DOMAIN x |-> fdiv(e[i], total)]

Softmax_choose_action(action_values) ==
    LET probabilities == softmax(action_values)
    IN  {[roll |-> 0, branch |-> "softmax", action |-> a] :
            a \in {i \in DOMAIN action_values : probabilities[i] > 0}}

policy_choose_action(policy, action_value_estimates) ==
    IF policy.kind = "epsilon_greedy"
    THEN EpsilonGreedy_choose_action(policy, action_value_estimates)
    ELSE Softmax_choose_action(action_value_estimates)

(* ------------------------------- agents --------------------------------- *)
(* An optional argument is a set: {} for None, {v} for the value v.        *)

None == {}

Some(v) == {v}

ValueOf(opt) == CHOOSE v \in opt : TRUE

np_ones(k) == Filled(k, One)

np_zeros(k) == Filled(k, 0)

SampleAverageBanditAgent(policy, env, initial_estimates) ==
    [kind |-> "sample_average",
     policy |-> policy,
     initial_estimates |-> initial_estimates,
     action_value_estimates |->
        [i \in 0 .. env.k - 1 |-> fmul(initial_estimates, np_ones(env.k)[i])],
     action_counts |-> np_zeros(env.k)]

GradientBanditAgent(env, initial_estimates, learning_rate) ==
    [kind |-> "gradient",
     policy |-> BanditSoftmaxPolicy,
     action_value_estimates |->
        [i \in 0 .. env.k - 1 |-> fmul(initial_estimates, np_ones(env.k)[i])],
     learning_rate |-> learning_rate,
     average_reward |-> 0,
     initial_estimates |-> initial_estimates]

DefaultLearningRate == fdiv(One, ToFloat(10))

agent_choose_action(agent) ==
    policy_choose_action(agent.policy, agent.action_value_estimates)

(* A reset that stores the value it was given as the initial estimate.    *)
ResetEstimatesStoring(agent, new_initial_estimates) ==
    IF new_initial_estimates # None
    THEN [agent EXCEPT !.action_value_estimates =
                            [i \in DOMAIN @ |-> ValueOf(new_initial_estimates)],
                       !.initial_estimates = ValueOf(new_initial_estimates)]
    ELSE [agent EXCEPT !.action_value_estimates =
                            [i \in DOMAIN @ |-> agent.initial_estimates]]

ResetEstimates(agent, new_initial_estimates) ==
    IF new_initial_estimates # None
    THEN [agent EXCEPT !.action_value_estimates =
            [i \in DOMAIN @ |-> ValueOf(new_initial_estimates)]]
    ELSE [agent EXCEPT !.action_value_estimates =
            [i \in DOMAIN @ |-> agent.initial_estimates]]

(* A reset that leaves the action counts as they are.                     *)
SampleAverage_reset_keeping_counts(agent, new_initial_estimates) ==
    ResetEstimates(agent, new_initial_estimates)

SampleAverage_reset_action_value_estimates(agent, new_initial_estimates) ==
    [ResetEstimates(agent, new_initial_estimates) EXCEPT
        !.action_counts = [i \in DOMAIN @ |-> 0]]

Gradient_reset_action_value_estimates(agent, new_initial_estimates) ==
    ResetEstimates(agent, new_initial_estimates)

reset_action_value_estimates(agent, new_initial_estimates) ==
    IF agent.kind = "sample_average"
    THEN SampleAverage_reset_action_value_estimates(agent, new_initial_estimates)
    ELSE Gradient_reset_action_value_estimates(agent, new_initial_estimates)

(* An update with a constant step size in place of 1 / N(A).              *)
SampleAverage_update_constant_step(agent, action, reward) ==
    LET count == fadd(agent.action_counts[action], One)
        learning_rate == DefaultLearningRate
        old == agent.action_value_estimates[action]
    IN  [agent EXCEPT
            !.action_counts[action] = count,
            !.action_value_estimates[action] =
                fadd(old, fmul(learning_rate, fsub(reward, old)))]

SampleAverage_update_action_value_estimates(agent, action, reward) ==
    LET count == fadd(agent.action_counts[action], One)
        learning_rate == fdiv(One, count)
        old == agent.action_value_estimates[action]
    IN  [agent EXCEPT
            !.action_counts[action] = count,
            !.action_value_estimates[action] =
                fadd(old, fmul(learning_rate, fsub(reward, old)))]

Gradient_update_action_value_estimates(agent, action, reward) ==
    LET current_policy == softmax(agent.action_value_estimates)
        diff == fsub(reward, agent.average_reward)
        step == fmul(agent.learning_rate, diff)
    IN  [agent EXCEPT
            !.action_value_estimates =
                [a \in DOMAIN @ |->
                    IF a = action
                    THEN fadd(@[a], fmul(step, fsub(One, current_policy[a])))
                    ELSE fsub(@[a], fmul(step, current_policy[a]))]]

update_action_value_estimates(agent, action, reward) ==
    IF agent.kind = "sample_average"
    THEN SampleAverage_update_action_value_estimates(agent, action, reward)
    ELSE Gradient_update_action_value_estimates(agent, action, reward)

(* --------------------- calls on one environment ------------------------- *)

IdleRunner ==
    /\ pc = "idle" /\ timesteps = 0 /\ runs = 0
    /\ run = 0 /\ timestep = 0 /\ agent_id = 0
    /\ rewards_history = <<>> /\ optimal_action_history = <<>>
    /\ returned = [rewards |-> <<>>, optimal |-> <<>>]
    /\ trace = <<>> /\ resets = 0

WalkArgs == {0, One}

ActionInputs(k) == -(k + 1) .. k

InitEnv ==
    /\ bandit_env \in UNION {BanditEnvironment(k, EnvMu, EnvSigma) : k \in 1 .. MaxK}
    /\ agents = <<>>
    /\ IdleRunner
    /\ lastCall = [op |-> "__init__"]
    /\ sinceReset = <<>>
    /\ constructed = <<>>

EnvReset ==
    /\ bandit_env' \in reset_true_action_values(bandit_env)
    /\ lastCall' = [op |-> "reset_true_action_values"]
    /\ UNCHANGED <<agents, runnerVars, sinceReset, constructed>>

EnvRandomWalk ==
    \E mu \in WalkArgs, sigma \in WalkArgs :
        /\ bandit_env' = random_walk_action_values(bandit_env, mu, sigma)
        /\ lastCall' = [op |-> "random_walk_action_values", mu |-> mu, sigma |-> sigma]
        /\ UNCHANGED <<agents, runnerVars, sinceReset, constructed>>

EnvTakeAction ==
    \E action \in ActionInputs(bandit_env.k) :
        \E result \in take_action_emit_reward(bandit_env, action) :
            /\ lastCall' = [op |-> "take_action_emit_reward", action |-> action,
                            raised |-> result.raised, reward |-> result.reward,
                            optimal |-> result.optimal]
            /\ UNCHANGED <<bandit_env, agents, runnerVars, sinceReset, constructed>>

NextEnv == EnvReset \/ EnvRandomWalk \/ EnvTakeAction

SpecEnv == InitEnv /\ [][NextEnv]_vars

(* ------------------------ calls on one agent ----------------------------- *)

DefaultEpsilon == fdiv(One, ToFloat(10))

Epsilons == {0, DefaultEpsilon}

InitialEstimates == {0, One}

ResetArgs == {None, Some(0), Some(2 * One)}

RewardInputs == {-One, One \div 8, One}

AgentsOver(env) ==
    {[i \in {0} |-> SampleAverageBanditAgent(BanditEpsilonGreedyPolicy(e), env, v)] :
        e \in Epsilons, v \in InitialEstimates}
    \cup
    {[i \in {0} |-> GradientBanditAgent(env, v, DefaultLearningRate)] :
        v \in InitialEstimates}

InitAgent ==
    /\ bandit_env \in {e \in BanditEnvironment(MaxK, EnvMu, 0) : e.optimal_action = 0}
    /\ agents \in AgentsOver(bandit_env)
    /\ IdleRunner
    /\ lastCall = [op |-> "__init__"]
    /\ sinceReset = [i \in DOMAIN agents |->
                        [happened |-> FALSE, arg |-> None, overridden |-> FALSE, updates |-> <<>>]]
    /\ constructed = [i \in DOMAIN agents |-> agents[i].initial_estimates]

AgentReset ==
    \E i \in DOMAIN agents, arg \in ResetArgs :
        /\ agents' = [agents EXCEPT ![i] = reset_action_value_estimates(@, arg)]
        /\ sinceReset' = [sinceReset EXCEPT ![i] =
                            [happened |-> TRUE, arg |-> arg,
                             overridden |-> @.overridden \/
                                (@.happened /\ @.arg \notin {None, Some(constructed[i])}),
                             updates |-> <<>>]]
        /\ lastCall' = [op |-> "reset_action_value_estimates", agent |-> i, arg |-> arg]
        /\ UNCHANGED <<bandit_env, runnerVars, constructed>>

AgentUpdate ==
    \E i \in DOMAIN agents, action \in 0 .. bandit_env.k - 1, reward \in RewardInputs :
        /\ Len(sinceReset[i].updates) < MaxUpdates
        /\ agents' = [agents EXCEPT ![i] = update_action_value_estimates(@, action, reward)]
        /\ sinceReset' = [sinceReset EXCEPT ![i].updates =
                            Append(@, [action |-> action, reward |-> reward])]
        /\ lastCall' = [op |-> "update_action_value_estimates", agent |-> i,
                        action |-> action, reward |-> reward]
        /\ UNCHANGED <<bandit_env, runnerVars, constructed>>

AgentChoose ==
    \E i \in DOMAIN agents :
        \E choice \in agent_choose_action(agents[i]) :
            /\ lastCall' = [op |-> "choose_action", agent |-> i, roll |-> choice.roll,
                            branch |-> choice.branch, action |-> choice.action]
            /\ UNCHANGED <<bandit_env, agents, runnerVars, sinceReset, constructed>>

NextAgent == AgentReset \/ AgentUpdate \/ AgentChoose

SpecAgent == InitAgent /\ [][NextAgent]_vars

(* --------------------------- BanditTestRunner ---------------------------- *)

Finite(v) == [kind |-> "finite", value |-> v]

NaN == [kind |-> "nan", value |-> 0]

Infinite(sign) == [kind |-> "inf", value |-> sign]

np_divide(a, b) ==
    IF b # 0 THEN Finite(fdiv(a, b))
    ELSE IF a = 0 THEN NaN
    ELSE Infinite(IF a > 0 THEN 1 ELSE -1)

num_agents == Cardinality(DOMAIN agents)

np_zeros2(rows, cols) == [t \in 0 .. rows - 1 |-> [i \in 0 .. cols - 1 |-> 0]]

DivideAll(history, n) ==
    [t \in DOMAIN history |-> [i \in DOMAIN history[t] |-> np_divide(history[t][i], ToFloat(n))]]

(* An accumulation that always lands in the first agent's column.         *)
AddRewardFirstColumn(history, t, i, reward) ==
    [history EXCEPT ![t][0] = fadd(@, reward)]

AddReward(history, t, i, reward) ==
    [history EXCEPT ![t][i] = fadd(@, reward)]

AddOptimal(history, t, i, optimal) ==
    IF optimal THEN [history EXCEPT ![t][i] = fadd(@, One)] ELSE history

full_reset_agents(as) == [i \in DOMAIN as |-> reset_action_value_estimates(as[i], None)]

(* Where the loops of perform_runs stand after the body of (r, t, i).      *)
AfterBody(r, t, i) ==
    IF i + 1 < num_agents THEN [pc |-> "step", run |-> r, timestep |-> t, agent_id |-> i + 1]
    ELSE IF t + 1 < timesteps THEN [pc |-> "step", run |-> r, timestep |-> t + 1, agent_id |-> 0]
    ELSE IF r + 1 < runs THEN [pc |-> "full_reset", run |-> r + 1, timestep |-> 0, agent_id |-> 0]
    ELSE [pc |-> "return", run |-> r + 1, timestep |-> 0, agent_id |-> 0]

(* Where they stand after full_reset of run r: the first body, if any.     *)
AfterReset(r) ==
    IF timesteps > 0 /\ num_agents > 0
    THEN [pc |-> "step", run |-> r, timestep |-> 0, agent_id |-> 0]
    ELSE IF r + 1 < runs THEN [pc |-> "full_reset", run |-> r + 1, timestep |-> 0, agent_id |-> 0]
    ELSE [pc |-> "return", run |-> r + 1, timestep |-> 0, agent_id |-> 0]

Goto(pos) ==
    /\ pc' = pos.pc
    /\ run' = pos.run
    /\ timestep' = pos.timestep
    /\ agent_id' = pos.agent_id

AgentLists(env) ==
    {<<>>,
     [i \in {0} |-> SampleAverageBanditAgent(BanditEpsilonGreedyPolicy(DefaultEpsilon), env, 0)],
     [i \in {0, 1} |->
        IF i = 0 THEN SampleAverageBanditAgent(BanditEpsilonGreedyPolicy(0), env, One)
        ELSE GradientBanditAgent(env, 0, DefaultLearningRate)]}

Init ==
    /\ bandit_env \in BanditEnvironment(MaxK, EnvMu, EnvSigma)
    /\ agents \in AgentLists(bandit_env)
    /\ IdleRunner
    /\ lastCall = [op |-> "__init__"]
    /\ sinceReset = <<>>
    /\ constructed = [i \in DOMAIN agents |-> agents[i].initial_estimates]

PerformRuns ==
    /\ pc = "idle"
    /\ \E t \in 0 .. MaxTimesteps, r \in 0 .. MaxRuns :
        /\ t * r * num_agents <= MaxWork
        /\ timesteps' = t
        /\ runs' = r
        /\ rewards_history' = np_zeros2(t, num_agents)
        /\ optimal_action_history' = np_zeros2(t, num_agents)
        /\ pc' = IF 0 < r THEN "full_reset" ELSE "return"
    /\ lastCall' = [op |-> "perform_runs"]
    /\ UNCHANGED <<bandit_env, agents, run, timestep, agent_id, returned, trace, resets,
                   sinceReset, constructed>>

(* A full_reset hoisted out of the run loop: only the first run resets.    *)
FullResetFirstRunOnly ==
    /\ pc = "full_reset"
    /\ IF run = 0
       THEN /\ bandit_env' \in reset_true_action_values(bandit_env)
            /\ agents' = full_reset_agents(agents)
            /\ resets' = resets + 1
       ELSE UNCHANGED <<bandit_env, agents, resets>>
    /\ Goto(AfterReset(run))
    /\ lastCall' = [op |-> "full_reset"]
    /\ UNCHANGED <<timesteps, runs, rewards_history, optimal_action_history, returned,
                   trace, sinceReset, constructed>>

FullReset ==
    /\ pc = "full_reset"
    /\ bandit_env' \in reset_true_action_values(bandit_env)
    /\ agents' = full_reset_agents(agents)
    /\ resets' = resets + 1
    /\ Goto(AfterReset(run))
    /\ lastCall' = [op |-> "full_reset"]
    /\ UNCHANGED <<timesteps, runs, rewards_history, optimal_action_history, returned,
                   trace, sinceReset, constructed>>

AgentStep ==
    /\ pc = "step"
    /\ \E choice \in agent_choose_action(agents[agent_id]) :
        \E result \in take_action_emit_reward(bandit_env, choice.action) :
            /\ result.raised = "none"
            /\ agents' = [agents EXCEPT ![agent_id] =
                    update_action_value_estimates(@, choice.action, result.reward)]
            /\ rewards_history' =
                    AddReward(rewards_history, timestep, agent_id, result.reward)
            /\ optimal_action_history' =
                    AddOptimal(optimal_action_history, timestep, agent_id, result.optimal)
            /\ trace' = Append(trace, [run |-> run, timestep |-> timestep,
                                       agent_id |-> agent_id, reward |-> result.reward,
                                       hit |-> (choice.action = bandit_env.optimal_action)])
    /\ Goto(AfterBody(run, timestep, agent_id))
    /\ lastCall' = [op |-> "step"]
    /\ UNCHANGED <<bandit_env, timesteps, runs, returned, resets, sinceReset, constructed>>

Return ==
    /\ pc = "return"
    /\ returned' = [rewards |-> DivideAll(rewards_history, runs),
                    optimal |-> DivideAll(optimal_action_history, runs)]
    /\ pc' = "done"
    /\ lastCall' = [op |-> "return"]
    /\ UNCHANGED <<bandit_env, agents, timesteps, runs, run, timestep, agent_id,
                   rewards_history, optimal_action_history, trace, resets,
                   sinceReset, constructed>>

Next == PerformRuns \/ FullReset \/ AgentStep \/ Return

Spec == Init /\ [][Next]_vars

(* ================================ claims ================================ *)

Front(sq) == SubSeq(sq, 1, Len(sq) - 1)

RECURSIVE CellRewardSum(_, _, _)
CellRewardSum(tr, t, i) ==
    IF tr = <<>> THEN 0
    ELSE LET e == tr[Len(tr)]
             before == CellRewardSum(Front(tr), t, i)
         IN  IF e.timestep = t /\ e.agent_id = i THEN fadd(before, e.reward) ELSE before

CellRuns(t, i) ==
    {n \in 1 .. Len(trace) : trace[n].timestep = t /\ trace[n].agent_id = i}

CellOptimalRuns(t, i) ==
    {n \in CellRuns(t, i) : trace[n].hit}

(* C1: for timesteps >= 1, runs >= 1 and a non-empty agent list, perform_runs *)
(* returns two matrices of shape [timesteps][numAgents]; cell [t][i] of the   *)
(* first is the sum over the runs of the reward agent i received at timestep  *)
(* t, divided by runs, and of the second the number of runs in which agent    *)
(* i's action at timestep t was the environment's optimal action of that run, *)
(* divided by runs, which lies in [0, 1]; each run contributes to each cell   *)
(* exactly once, and nothing lands in another cell.                           *)
C1_AveragedHistories ==
    (pc = "done" /\ timesteps >= 1 /\ runs >= 1 /\ num_agents >= 1) =>
        /\ DOMAIN returned.rewards = 0 .. timesteps - 1
        /\ DOMAIN returned.optimal = 0 .. timesteps - 1
        /\ \A t \in 0 .. timesteps - 1 :
            /\ DOMAIN returned.rewards[t] = 0 .. num_agents - 1
            /\ DOMAIN returned.optimal[t] = 0 .. num_agents - 1
            /\ \A i \in 0 .. num_agents - 1 :
                /\ {trace[n].run : n \in CellRuns(t, i)} = 0 .. runs - 1
                /\ Cardinality(CellRuns(t, i)) = runs
                /\ returned.rewards[t][i] =
                        Finite(fdiv(CellRewardSum(trace, t, i), ToFloat(runs)))
                /\ returned.optimal[t][i] =
                        Finite(fdiv(ToFloat(Cardinality(CellOptimalRuns(t, i))), ToFloat(runs)))
                /\ returned.optimal[t][i].value >= 0
                /\ returned.optimal[t][i].value <= One

C1_Witness ==
    /\ pc = "done" /\ timesteps = 1 /\ runs = 2 /\ num_agents = 2
    /\ returned.rewards[0][0] # returned.rewards[0][1]
    /\ returned.optimal[0][0] = Finite(Half)
    /\ returned.optimal[0][1] = Finite(One)

(* C2: full_reset is called exactly once per run, before the first step of  *)
(* that run and never between two timesteps of it: the environment changes   *)
(* only at a run boundary, and within a run an agent changes only in its own *)
(* step.                                                                     *)
C2_ResetOncePerRun ==
    /\ [](/\ pc = "step" => resets = run + 1
          /\ pc = "full_reset" => resets = run
          /\ pc \in {"return", "done"} => resets = runs)
    /\ [][/\ bandit_env' # bandit_env => pc = "full_reset"
          /\ resets' # resets =>
                pc = "full_reset" /\ resets' = resets + 1 /\ timestep' = 0 /\ agent_id' = 0
          /\ \A j \in DOMAIN agents :
                agents'[j] # agents[j] =>
                    \/ pc = "full_reset"
                    \/ pc = "step" /\ j = agent_id]_vars

C2_Witness ==
    /\ pc = "step" /\ run = 1 /\ timestep = 1
    /\ resets = 2
    /\ Len(trace) = 3

(* C10: at every point of perform_runs every action count of a sample-average *)
(* agent is a non-negative integer, and its action counts sum to the number  *)
(* of timesteps the agent has completed in the current run: 0 right after    *)
(* full_reset, timesteps at the end of a run; counts never carry over.       *)
Completed(i) ==
    IF pc = "step" THEN timestep + (IF i < agent_id THEN 1 ELSE 0)
    ELSE IF pc = "idle" \/ run = 0 THEN 0
    ELSE timesteps

C10_CountsSumToSteps ==
    \A i \in DOMAIN agents :
        agents[i].kind = "sample_average" =>
            /\ \A a \in DOMAIN agents[i].action_counts :
                /\ agents[i].action_counts[a] >= 0
                /\ agents[i].action_counts[a] % One = 0
            /\ np_sum(agents[i].action_counts) = ToFloat(Completed(i))

C10_Witness ==
    /\ pc = "step" /\ run = 1 /\ timestep = 1 /\ num_agents = 1
    /\ np_sum(agents[0].action_counts) = One

(* C5: perform_runs with an empty agent list, timesteps = 0 or runs = 0      *)
(* returns empty or zero outputs (there is no error path); with runs = 0 it  *)
(* never returns a non-empty matrix of undefined values.                     *)
Cells(m) == {m[t][i] : <<t, i>> \in {ti \in (DOMAIN m) \X (0 .. num_agents - 1) : ti[2] \in DOMAIN m[ti[1]]}}

C5_DegenerateInputs ==
    (pc = "done" /\ (num_agents = 0 \/ timesteps = 0 \/ runs = 0)) =>
        \A cell \in Cells(returned.rewards) \cup Cells(returned.optimal) :
            cell = Finite(0)

(* C4: take_action_emit_reward with an action outside 0 <= action < k       *)
(* signals an error; it never returns a reward for a wrapped index.          *)
C4_OutOfRangeRaises ==
    (/\ lastCall.op = "take_action_emit_reward"
     /\ ~(0 <= lastCall.action /\ lastCall.action < bandit_env.k)) =>
        lastCall.raised # "none"

(* C7: in every state of the environment true_action_values has length k,   *)
(* optimal_action is an index in [0, k) whose value is the maximum, and      *)
(* take_action_emit_reward changes neither.                                  *)
EnvironmentInvariant ==
    /\ DOMAIN bandit_env.true_action_values = 0 .. bandit_env.k - 1
    /\ bandit_env.optimal_action \in 0 .. bandit_env.k - 1
    /\ \A a \in 0 .. bandit_env.k - 1 :
        bandit_env.true_action_values[bandit_env.optimal_action] >=
            bandit_env.true_action_values[a]

C7_OptimalActionIsMaximizer ==
    /\ []EnvironmentInvariant
    /\ [][lastCall'.op = "take_action_emit_reward" => bandit_env' = bandit_env]_vars

C7_Witness ==
    /\ lastCall.op = "take_action_emit_reward"
    /\ lastCall.raised = "none"
    /\ bandit_env.k = MaxK
    /\ bandit_env.optimal_action = bandit_env.k - 1
    /\ bandit_env.true_action_values[0] < bandit_env.true_action_values[bandit_env.k - 1]

(* C3: reset_action_value_estimates(X) leaves every estimate equal to X;    *)
(* with no argument it leaves every estimate equal to the initial_estimates  *)
(* the agent was constructed with, whatever earlier resets were given; a     *)
(* sample-average agent's counts are then all 0; the vector keeps length k.  *)
C3_ResetEstimates ==
    lastCall.op = "reset_action_value_estimates" =>
        LET agent == agents[lastCall.agent]
            expected == IF lastCall.arg = None THEN constructed[lastCall.agent]
                        ELSE ValueOf(lastCall.arg)
        IN  /\ DOMAIN agent.action_value_estimates = 0 .. bandit_env.k - 1
            /\ \A a \in 0 .. bandit_env.k - 1 : agent.action_value_estimates[a] = expected
            /\ agent.kind = "sample_average" =>
                    \A a \in 0 .. bandit_env.k - 1 : agent.action_counts[a] = 0

C3_Witness ==
    /\ lastCall.op = "reset_action_value_estimates"
    /\ lastCall.arg = None
    /\ sinceReset[0].overridden
    /\ constructed[0] = One
    /\ agents[0].kind = "sample_average"

(* C6: with epsilon = 0 the epsilon-greedy policy always returns a maximizer *)
(* of the estimates and never takes the exploratory branch, whatever the     *)
(* roll.                                                                     *)
C6_EpsilonZeroIsGreedy ==
    (/\ lastCall.op = "choose_action"
     /\ agents[lastCall.agent].policy.kind = "epsilon_greedy"
     /\ agents[lastCall.agent].policy.epsilon = 0) =>
        /\ lastCall.branch = "greedy"
        /\ lastCall.action \in Maximizers(agents[lastCall.agent].action_value_estimates)

(* C8: every update_action_value_estimates of the gradient agent updates the *)
(* average_reward baseline: after a step whose reward differs from the       *)
(* baseline, the baseline has changed.                                       *)
C8_BaselineUpdated ==
    [][(/\ lastCall'.op = "update_action_value_estimates"
        /\ agents[lastCall'.agent].kind = "gradient"
        /\ lastCall'.reward # agents[lastCall'.agent].average_reward) =>
            agents'[lastCall'.agent].average_reward #
                agents[lastCall'.agent].average_reward]_vars

(* C9: after n >= 1 consecutive identical updates (a, r) following a reset, *)
(* a sample-average agent has estimates[a] = r exactly, whatever the value   *)
(* the reset left, and its other estimates are as the reset left them.       *)
ResetValue(i) ==
    IF sinceReset[i].arg = None THEN constructed[i] ELSE ValueOf(sinceReset[i].arg)

IdenticalUpdates(i) ==
    /\ agents[i].kind = "sample_average"
    /\ sinceReset[i].happened
    /\ sinceReset[i].updates # <<>>
    /\ \A n \in 1 .. Len(sinceReset[i].updates) :
            sinceReset[i].updates[n] = sinceReset[i].updates[1]

EstimateIsReward(i) ==
    LET u == sinceReset[i].updates[1]
    IN  /\ agents[i].action_value_estimates[u.action] = u.reward
        /\ \A b \in DOMAIN agents[i].action_value_estimates :
                b # u.action => agents[i].action_value_estimates[b] = ResetValue(i)

C9_IdenticalUpdatesAnyStart ==
    \A i \in DOMAIN agents : IdenticalUpdates(i) => EstimateIsReward(i)

(* C9 as amended: the same when the reset left the estimates at 0.          *)
C9_IdenticalUpdatesFromZero ==
    \A i \in DOMAIN agents :
        (IdenticalUpdates(i) /\ ResetValue(i) = 0) => EstimateIsReward(i)

C9_Witness ==
    /\ IdenticalUpdates(0)
    /\ ResetValue(0) = 0
    /\ Len(sinceReset[0].updates) = MaxUpdates
    /\ sinceReset[0].updates[1].reward = One \div 8
    /\ agents[0].action_value_estimates[sinceReset[0].updates[1].action] = One \div 8

====
